---- MODULE Spec2Model ----
(***************************************************************************)
(* Author / book CRUD service: the author repository over the relational   *)
(* store (authors, books, book_authors link rows), the book use-case over  *)
(* its repository interface, and the author and book HTTP handlers over    *)
(* their use-case interfaces.                                              *)
(*                                                                         *)
(* Conventions.  A Go string is a sequence of one-character strings.  A    *)
(* nillable value (a pointer, *time.Time) is a sequence of length 0 (nil)  *)
(* or 1.  A Go error is its chain of wrapped errors, outermost first; the  *)
(* nil error is the empty chain.                                           *)
(***************************************************************************)
EXTENDS Integers, Sequences, FiniteSets, TLC

VARIABLES
    authors,      \* table authors: row id |-> [first_name, middle_name, last_name, deleted_at]
    books,        \* table books: row id |-> [title]
    bookAuthors,  \* link table book_authors: set of <<book id, author id>>
    now,          \* the clock read by time.Now()
    last,         \* the last author repository call: [op, in, err, res, total]
    prev,         \* the call before it when that was a successful Create, else NoCall
    ormCalls,     \* the ORM calls the last repository call issued, in order
    softDeleted,  \* history: author id |-> its link rows when Delete(id) succeeded
    listing,      \* a List call between its two queries: [pc, total]
    uc,           \* the last book use-case call: its repository calls and its result
    http          \* the last HTTP request: the handler's steps and what it wrote

vars == <<authors, books, bookAuthors, now, last, prev, ormCalls, softDeleted, listing,
          uc, http>>

storeVars == <<authors, books, bookAuthors, now, last, prev, ormCalls, softDeleted, listing>>

----------------------------------------------------------------------------
(* Bounds of the model *)

MaxAuthors == 2
MaxBooks == 2
MaxTime == 2
MaxReqBooks == 2
MaxLimit == 2
MaxOffset == 1
MaxBookID == 2

FirstNames == {<<"A", "b">>, <<"b">>}
MiddleNames == {<<"a">>}
LastNames == {<<"B">>}

FirstNameFilters == {<<>>, <<"a">>}
MiddleNameFilters == {<<>>, <<"A">>}
LastNameFilters == {<<>>, <<"b">>}
Sorts == {<<>>, <<"first_name", "DESC">>}

----------------------------------------------------------------------------
(* Errors *)

NoError == <<>>

\* fmt.Errorf("...: %w", err)
Wrap(msg, err) == <<msg>> \o err

\* errors.Is(err, target)
ErrorsIs(err, target) == \E i \in 1..Len(err) : err[i] = target

\* what a failing ORM call returns: the driver failed, or ent found no row
ErrDriver == "driver: bad connection"
ErrNotFound == "ent: author not found"
ErrNoRows == "sql: no rows in result set"
ErrNoRecord == "no record found"
DriverError == <<ErrDriver>>
NotFoundError == <<ErrNotFound>>

----------------------------------------------------------------------------
(* Strings *)

Min2(a, b) == IF a < b THEN a ELSE b

\* strings.ToLower on one character
FoldChar(c) == CASE c = "A" -> "a" [] c = "B" -> "b" [] OTHER -> c

Fold(s) == [i \in 1..Len(s) |-> FoldChar(s[i])]

\* the byte order of the characters
CharRank(c) == CASE c = "A" -> 1 [] c = "B" -> 2 [] c = "a" -> 3 [] OTHER -> 4

RECURSIVE StrLess(_, _)
StrLess(s, t) ==
    IF t = <<>> THEN FALSE
    ELSE IF s = <<>> THEN TRUE
    ELSE IF CharRank(s[1]) # CharRank(t[1]) THEN CharRank(s[1]) < CharRank(t[1])
    ELSE StrLess(Tail(s), Tail(t))

----------------------------------------------------------------------------
(* The ORM: predicates, eager loading and the mapping to response structs *)

AuthorIDs == 1..Len(authors)

\* entAuthor.DeletedAtIsNil()
DeletedAtIsNil(a) == a.deleted_at = <<>>

\* entAuthor.<Column>ContainsFold(sub): case-insensitive substring
ContainsFold(s, sub) ==
    \E i \in 0..(Len(s) - Len(sub)) : SubSeq(Fold(s), i + 1, i + Len(sub)) = Fold(sub)

\* the predicates List builds from the filter: one per non-empty name
predicateUser(f, a) ==
    /\ (f.FirstName # <<>> => ContainsFold(a.first_name, f.FirstName))
    /\ (f.MiddleName # <<>> => ContainsFold(a.middle_name, f.MiddleName))
    /\ (f.LastName # <<>> => ContainsFold(a.last_name, f.LastName))

\* WithBooks(): the books linked to the author, in id order
RECURSIVE SetToSeq(_)
SetToSeq(S) ==
    IF S = {} THEN <<>>
    ELSE LET m == CHOOSE x \in S : \A y \in S : x <= y
         IN <<m>> \o SetToSeq(S \ {m})

\* mutant: the query without WithBooks(), the edge is not loaded
EdgesBooksNotLoaded(id) == <<>>

EdgesBooks(id) == SetToSeq({b \in 1..Len(books) : <<b, id>> \in bookAuthors})

\* the loop building []*book.Schema from ent books
BookSchemas(ids) == [i \in 1..Len(ids) |-> [ID |-> ids[i], Title |-> books[ids[i]].title]]

\* the author.Schema literal built from an ent author and its book schemas
AuthorSchema(id, a, bks) ==
    [ID |-> id, FirstName |-> a.first_name, MiddleName |-> a.middle_name,
     LastName |-> a.last_name, DeletedAt |-> a.deleted_at, Books |-> bks]

\* authorOrder: the order options of the sort map; unknown columns are skipped
authorOrder(sort) ==
    IF sort = <<>> THEN <<>>
    ELSE IF sort[1] \in {"first_name", "last_name"}
         THEN <<[col |-> sort[1], asc |-> (sort[2] = "ASC")]>>
         ELSE <<>>

\* row a may not come after row b under the order options
InOrder(a, b, order) ==
    \/ order = <<>>
    \/ LET ka == IF order[1].col = "first_name" THEN a.first_name ELSE a.last_name
           kb == IF order[1].col = "first_name" THEN b.first_name ELSE b.last_name
       IN IF order[1].asc THEN ~StrLess(kb, ka) ELSE ~StrLess(ka, kb)

\* the orders in which the database may return the rows S: every permutation
\* that respects the ORDER BY (rows it does not order come in any order)
Orderings(S, order) ==
    {p \in [1..Cardinality(S) -> S] :
        /\ \A i, j \in 1..Cardinality(S) : i # j => p[i] # p[j]
        /\ \A i, j \in 1..Cardinality(S) :
               i < j => InOrder(authors[p[i]], authors[p[j]], order)}

\* LIMIT l OFFSET o
LimitOffset(p, l, o) == SubSeq(p, o + 1, Min2(Len(p), o + l))

----------------------------------------------------------------------------
(* Author repository *)

NoCall == [op |-> "none", in |-> <<>>, err |-> NoError, res |-> <<>>, total |-> 0]

\* the book lists of the requests: the first n of the titles t1, t2, ...
BookLists == {[i \in 1..n |-> [Title |-> <<"t", i>>]] : n \in 0..MaxReqBooks}

CreateRequests ==
    [FirstName : FirstNames, MiddleName : MiddleNames, LastName : LastNames,
     Books : BookLists]

UpdateRequests ==
    [ID : 0..(MaxAuthors + 1), FirstName : FirstNames, MiddleName : MiddleNames,
     LastName : LastNames]

\* the filters author.Filters builds from a query string; the model sorts
\* only unfiltered lists
Filters ==
    {f \in [FirstName : FirstNameFilters, MiddleName : MiddleNameFilters,
            LastName : LastNameFilters, Limit : 1..MaxLimit, Offset : 0..MaxOffset,
            Sort : Sorts] :
        f.Sort # <<>> => f.FirstName = <<>> /\ f.MiddleName = <<>> /\ f.LastName = <<>>}

\* what prev becomes when another repository call starts
Shift == IF last.op = "Create" /\ last.err = NoError THEN last ELSE NoCall

\* the bulk slice: one book builder per requested book
BulkRows(request) == [i \in 1..Len(request.Books) |-> [title |-> request.Books[i].Title]]

\* r.ent.Book.CreateBulk(bulk...).Save(ctx): the books table afterwards (one
\* INSERT: all rows or none)
BulkCreate(request, fails) == IF fails THEN books ELSE books \o BulkRows(request)

\* mutant: the link rows are inserted outside the transaction and stay when
\* the author row fails to save
AuthorCreateLinksStay(request, bookIDs, fails) ==
    LET row == [first_name |-> request.FirstName, middle_name |-> request.MiddleName,
                last_name |-> request.LastName, deleted_at |-> <<>>]
        id == Len(authors) + 1
        links == bookAuthors \cup {<<bookIDs[i], id>> : i \in 1..Len(bookIDs)}
    IN [authors |-> IF fails THEN authors ELSE Append(authors, row), bookAuthors |-> links]

\* r.ent.Author.Create()...AddBooks(books...).Save(ctx): the author row and
\* its link rows to the books, saved in one transaction
AuthorCreate(request, bookIDs, fails) ==
    LET row == [first_name |-> request.FirstName, middle_name |-> request.MiddleName,
                last_name |-> request.LastName, deleted_at |-> <<>>]
        id == Len(authors) + 1
    IN IF fails
       THEN [authors |-> authors, bookAuthors |-> bookAuthors]
       ELSE [authors |-> Append(authors, row),
             bookAuthors |-> bookAuthors \cup {<<bookIDs[i], id>> : i \in 1..Len(bookIDs)}]

\* mutant: a failed bulk create is tried once more before giving up
CreateCallsRetry(fail) ==
    CASE fail = "bulk" -> <<"Book.CreateBulk", "Book.CreateBulk">>
      [] fail = "create" -> <<"Book.CreateBulk", "Author.Create">>
      [] OTHER -> <<"Book.CreateBulk", "Author.Create", "Author.Get">>

\* the ORM calls repository.Create issues when the call named by fail fails
\* ("none": no call fails): each error return ends the function
CreateCalls(fail) ==
    CASE fail = "bulk" -> <<"Book.CreateBulk">>
      [] fail = "create" -> <<"Book.CreateBulk", "Author.Create">>
      [] OTHER -> <<"Book.CreateBulk", "Author.Create", "Author.Get">>

\* the error repository.Create returns
CreateError(fail) ==
    CASE fail = "bulk" -> Wrap("author.repository.Create bulk books", DriverError)
      [] fail = "create" -> Wrap("author.repository.Create", DriverError)
      [] fail = "get" -> Wrap("author not found", DriverError)
      [] OTHER -> NoError

\* repository.Create for a non-nil request.  fail names the ORM call that
\* fails ("none": all succeed).  Yields the store after the call, the ORM
\* calls issued, and the returned (record, error).
CreateOutcome(request, fail) ==
    LET calls == CreateCalls(fail)
        n == Len(request.Books)
        books1 == IF Len(calls) >= 1 THEN BulkCreate(request, fail = "bulk") ELSE books
        created == [i \in 1..(Len(books1) - Len(books)) |-> Len(books) + i]
        saved == IF Len(calls) >= 2
                 THEN AuthorCreate(request, created, fail = "create")
                 ELSE [authors |-> authors, bookAuthors |-> bookAuthors]
        id == Len(authors) + 1
        b == [i \in 1..Len(created) |-> [ID |-> created[i], Title |-> books1[created[i]].title]]
    IN [books |-> books1, authors |-> saved.authors, bookAuthors |-> saved.bookAuthors,
        calls |-> calls, err |-> CreateError(fail),
        res |-> IF fail = "none"
                THEN <<AuthorSchema(id, saved.authors[id], b)>>
                ELSE <<>>]

Create ==
    /\ \/ \* request == nil
          /\ last' = [op |-> "Create", in |-> <<>>, res |-> <<>>, total |-> 0,
                      err |-> <<"request cannot be nil">>]
          /\ ormCalls' = <<>>
          /\ UNCHANGED <<authors, books, bookAuthors>>
       \/ \E request \in CreateRequests, fail \in {"none", "bulk", "create", "get"} :
            /\ Len(authors) < MaxAuthors
            /\ Len(books) + Len(request.Books) <= MaxBooks
            /\ LET out == CreateOutcome(request, fail)
               IN /\ books' = out.books
                  /\ authors' = out.authors
                  /\ bookAuthors' = out.bookAuthors
                  /\ ormCalls' = out.calls
                  /\ last' = [op |-> "Create", in |-> <<request>>, res |-> out.res,
                              total |-> 0, err |-> out.err]
    /\ prev' = Shift
    /\ UNCHANGED <<now, softDeleted, listing, uc, http>>

\* mutant: the second query without Where(entAuthor.DeletedAtIsNil())
ListWhereAll(f) == {id \in AuthorIDs : predicateUser(f, authors[id])}

\* the rows the second query of List selects
ListWhere(f) ==
    {id \in AuthorIDs : predicateUser(f, authors[id]) /\ DeletedAtIsNil(authors[id])}

\* the first query of List: Count over the rows with deleted_at nil
ListCount == Cardinality({id \in AuthorIDs : DeletedAtIsNil(authors[id])})

\* the resp slice List builds from the rows the query returned
ListResp(rows) ==
    [i \in 1..Len(rows) |-> AuthorSchema(rows[i], authors[rows[i]], BookSchemas(EdgesBooks(rows[i])))]

List ==
    /\ \E f \in Filters, fail \in {"none", "count", "all"} :
         \/ /\ fail = "count"
            /\ ormCalls' = <<"Author.Query.Count">>
            /\ last' = [op |-> "List", in |-> f, res |-> <<>>, total |-> 0,
                        err |-> Wrap("get total author records", DriverError)]
         \/ /\ fail = "all"
            /\ ormCalls' = <<"Author.Query.Count", "Author.Query.All">>
            /\ last' = [op |-> "List", in |-> f, res |-> <<>>, total |-> 0,
                        err |-> Wrap("get author records", DriverError)]
         \/ /\ fail = "none"
            /\ ormCalls' = <<"Author.Query.Count", "Author.Query.All">>
            /\ \E p \in Orderings(ListWhere(f), authorOrder(f.Sort)) :
                 last' = [op |-> "List", in |-> f, err |-> NoError, total |-> ListCount,
                          res |-> ListResp(LimitOffset(p, f.Limit, f.Offset))]
    /\ prev' = Shift
    /\ UNCHANGED <<authors, books, bookAuthors, now, softDeleted, listing, uc, http>>

\* no List call is between its two queries
NoListing == [pc |-> "idle", total |-> 0]

\* List, first query: r.ent.Author.Query().Where(DeletedAtIsNil()).Count(ctx).
\* The two queries of List are two statements on the connection pool, not one
\* transaction, so other requests' writes can commit between them: this step
\* ends after the count, with total held in the call's local variable.
ListCountStep ==
    /\ listing.pc = "idle"
    /\ \E f \in Filters, fail \in BOOLEAN :
         IF fail
         THEN /\ ormCalls' = <<"Author.Query.Count">>
              /\ last' = [op |-> "List", in |-> f, res |-> <<>>, total |-> 0,
                          err |-> Wrap("get total author records", DriverError)]
              /\ prev' = Shift
              /\ UNCHANGED listing
         ELSE /\ listing' = [pc |-> "counted", total |-> ListCount]
              /\ UNCHANGED <<last, prev, ormCalls>>
    /\ UNCHANGED <<authors, books, bookAuthors, now, softDeleted, uc, http>>

\* List, second query and return: ...Limit().Offset().Order().All(ctx) over
\* the store as it is now, returned with the total counted before.  The
\* filter is first used here.
ListAllStep ==
    /\ listing.pc = "counted"
    /\ \E f \in Filters, fail \in BOOLEAN :
         /\ ormCalls' = <<"Author.Query.Count", "Author.Query.All">>
         /\ IF fail
            THEN last' = [op |-> "List", in |-> f, res |-> <<>>, total |-> 0,
                          err |-> Wrap("get author records", DriverError)]
            ELSE \E p \in Orderings(ListWhere(f), authorOrder(f.Sort)) :
                   last' = [op |-> "List", in |-> f, err |-> NoError,
                            total |-> listing.total,
                            res |-> ListResp(LimitOffset(p, f.Limit, f.Offset))]
    /\ prev' = Shift
    /\ listing' = NoListing
    /\ UNCHANGED <<authors, books, bookAuthors, now, softDeleted, uc, http>>

\* Handler.List: the Meta of the response, from what the use case returned
ListMeta(res, total) == [Size |-> Len(res), Total |-> total]

\* mutant: the query without Where(entAuthor.DeletedAtIsNil())
ReadWhereAll(id) == {i \in AuthorIDs : i = id}

\* the row Read's query returns: the id, with deleted_at nil
ReadWhere(id) == {i \in AuthorIDs : i = id /\ DeletedAtIsNil(authors[i])}

Read ==
    /\ \E id \in 0..(MaxAuthors + 1), fault \in BOOLEAN :
         /\ ormCalls' = <<"Author.Query.First">>
         /\ IF fault
            THEN last' = [op |-> "Read", in |-> id, res |-> <<>>, total |-> 0,
                          err |-> Wrap("error retrieving book", DriverError)]
            ELSE IF ReadWhere(id) = {}
            THEN last' = [op |-> "Read", in |-> id, res |-> <<>>, total |-> 0,
                          err |-> Wrap("error retrieving book", NotFoundError)]
            ELSE last' = [op |-> "Read", in |-> id, total |-> 0, err |-> NoError,
                          res |-> <<AuthorSchema(id, authors[id], BookSchemas(EdgesBooks(id)))>>]
    /\ prev' = Shift
    /\ UNCHANGED <<authors, books, bookAuthors, now, softDeleted, listing, uc, http>>

\* the rows UpdateOneID(id) updates: the row with that id, deleted or not
UpdateOneID(id) == {i \in AuthorIDs : i = id}

\* the row Update saves
UpdatedRow(a, old) ==
    [old EXCEPT !.first_name = a.FirstName, !.middle_name = a.MiddleName,
                !.last_name = a.LastName]

Update ==
    /\ \E a \in UpdateRequests, fault \in BOOLEAN :
         /\ ormCalls' = <<"Author.UpdateOneID.Save">>
         /\ IF fault \/ UpdateOneID(a.ID) = {}
            THEN /\ last' = [op |-> "Update", in |-> a, res |-> <<>>, total |-> 0,
                             err |-> IF fault THEN DriverError ELSE NotFoundError]
                 /\ UNCHANGED authors
            ELSE /\ authors' = [authors EXCEPT ![a.ID] = UpdatedRow(a, authors[a.ID])]
                 \* updated.Edges.Books is not loaded by an update: no books
                 /\ last' = [op |-> "Update", in |-> a, total |-> 0, err |-> NoError,
                             res |-> <<AuthorSchema(a.ID, authors'[a.ID], <<>>)>>]
    /\ prev' = Shift
    /\ UNCHANGED <<books, bookAuthors, now, softDeleted, listing, uc, http>>

\* the row Delete saves: SetDeletedAt(time.Now())
DeletedRow(old, t) == [old EXCEPT !.deleted_at = <<t>>]

Delete ==
    /\ now < MaxTime
    /\ \E authorID \in 0..(MaxAuthors + 1), fault \in BOOLEAN :
         /\ ormCalls' = <<"Author.UpdateOneID.Save">>
         /\ IF fault \/ UpdateOneID(authorID) = {}
            THEN /\ last' = [op |-> "Delete", in |-> authorID, res |-> <<>>, total |-> 0,
                             err |-> IF fault THEN DriverError ELSE NotFoundError]
                 /\ UNCHANGED <<authors, softDeleted, now>>
            ELSE /\ authors' = [authors EXCEPT ![authorID] = DeletedRow(authors[authorID], now + 1)]
                 /\ now' = now + 1
                 /\ last' = [op |-> "Delete", in |-> authorID, res |-> <<>>, total |-> 0,
                             err |-> NoError]
                 /\ softDeleted' =
                      IF authorID \in DOMAIN softDeleted THEN softDeleted
                      ELSE softDeleted @@ (authorID :> {l \in bookAuthors : l[2] = authorID})
    /\ prev' = Shift
    /\ UNCHANGED <<books, bookAuthors, listing, uc, http>>

----------------------------------------------------------------------------
(* Book use-case, over the repository.Book interface.  What each repository *)
(* call returns is an input: an id or a record with a nil error, or an      *)
(* error with the zero id or a nil record.                                  *)

BookUpdateRequests ==
    [ID : 0..MaxBookID, Title : {"", "T"}, PublishedDate : {"2020-01-02"},
     ImageURL : {"", "http://x", "x"}, Description : {"", "d"}]

BookCreateRequests ==
    [Title : {"", "T"}, PublishedDate : {"", "2020-01-02"},
     ImageURL : {"", "http://x", "x"}, Description : {"d"}]

BookRecords == [ID : 1..MaxBookID, Title : {"", "T"}]

\* the errors a repository or use-case call may return
CallErrors ==
    {<<ErrNoRows>>, Wrap("book", <<ErrNoRows>>), <<ErrNoRecord>>,
     Wrap("author", <<ErrNoRecord>>), DriverError}

\* the (id, error) pairs bookRepo.Create returns
RepoCreateReturns ==
    [ret : 1..MaxBookID, err : {NoError}] \cup [ret : {0}, err : CallErrors]

\* the (record, error) pairs bookRepo.Read returns
RepoReadReturns ==
    [ret : {<<b>> : b \in BookRecords}, err : {NoError}] \cup [ret : {<<>>}, err : CallErrors]

\* the errors bookRepo.Update and bookRepo.Delete return
RepoErrorReturns == [ret : {<<>>}, err : {NoError} \cup CallErrors]

Call(fn, arg, returned) == [fn |-> fn, arg |-> arg, ret |-> returned.ret, err |-> returned.err]

\* mutant: the record is read back whether or not the write succeeded
UseCaseCreateAlwaysRead(book, created, read) ==
    [op |-> "Create", in |-> book,
     calls |-> <<Call("Create", book, created), Call("Read", created.ret, read)>>,
     res |-> read.ret, err |-> read.err]

\* BookUseCase.Create
UseCaseCreate(book, created, read) ==
    IF created.err # NoError
    THEN [op |-> "Create", in |-> book, calls |-> <<Call("Create", book, created)>>,
          res |-> <<>>, err |-> created.err]
    ELSE IF read.err # NoError
    THEN [op |-> "Create", in |-> book,
          calls |-> <<Call("Create", book, created), Call("Read", created.ret, read)>>,
          res |-> <<>>, err |-> read.err]
    ELSE [op |-> "Create", in |-> book,
          calls |-> <<Call("Create", book, created), Call("Read", created.ret, read)>>,
          res |-> read.ret, err |-> read.err]

\* BookUseCase.Update
UseCaseUpdate(book, updated, read) ==
    IF updated.err # NoError
    THEN [op |-> "Update", in |-> book, calls |-> <<Call("Update", book, updated)>>,
          res |-> <<>>, err |-> updated.err]
    ELSE [op |-> "Update", in |-> book,
          calls |-> <<Call("Update", book, updated), Call("Read", book.ID, read)>>,
          res |-> read.ret, err |-> read.err]

\* BookUseCase.Read and BookUseCase.Delete: one forwarded call
UseCaseForward(fn, arg, returned) ==
    [op |-> fn, in |-> arg, calls |-> <<Call(fn, arg, returned)>>,
     res |-> returned.ret, err |-> returned.err]

\* the book filters: Base.Search selects Search over List
BookFilters == [Search : BOOLEAN]

\* the (records, error) pairs bookRepo.List and bookRepo.Search return
RepoListReturns ==
    [ret : {<<>>} \cup {<<b>> : b \in BookRecords}, err : {NoError}]
        \cup [ret : {<<>>}, err : CallErrors]

BookUseCaseCreate ==
    /\ \E book \in BookCreateRequests, created \in RepoCreateReturns, read \in RepoReadReturns :
         uc' = UseCaseCreate(book, created, read)
    /\ UNCHANGED <<storeVars, http>>

BookUseCaseUpdate ==
    /\ \E book \in BookUpdateRequests, updated \in RepoErrorReturns, read \in RepoReadReturns :
         uc' = UseCaseUpdate(book, updated, read)
    /\ UNCHANGED <<storeVars, http>>

BookUseCaseRead ==
    /\ \E bookID \in 0..MaxBookID, read \in RepoReadReturns :
         uc' = UseCaseForward("Read", bookID, read)
    /\ UNCHANGED <<storeVars, http>>

BookUseCaseDelete ==
    /\ \E bookID \in 0..MaxBookID, deleted \in RepoErrorReturns :
         uc' = UseCaseForward("Delete", bookID, deleted)
    /\ UNCHANGED <<storeVars, http>>

BookUseCaseList ==
    /\ \E f \in BookFilters, listed \in RepoListReturns :
         uc' = UseCaseForward("List", f, listed)
    /\ UNCHANGED <<storeVars, http>>

BookUseCaseSearch ==
    /\ \E req \in BookFilters, found \in RepoListReturns :
         uc' = UseCaseForward("Search", req, found)
    /\ UNCHANGED <<storeVars, http>>

----------------------------------------------------------------------------
(* HTTP handlers, over the use-case interfaces.  What the use-case returns  *)
(* is an input.  A handler's run is the sequence of its steps (events) and  *)
(* the statuses it wrote with respond.Error, respond.Errors or respond.Json *)
(* (writes); the server sends the first status written, or 200 when the     *)
(* handler returns without writing.                                         *)

StatusOK == 200
StatusCreated == 201
StatusBadRequest == 400
StatusInternalServerError == 500

\* the id path parameters of the requests
PathParams == {<<>>, <<"0">>, <<"1">>, <<"0", "2">>, <<"a">>, <<"-", "1">>, <<"2", "x">>}

Digits == <<"0", "1", "2", "3", "4", "5", "6", "7", "8", "9">>

IsDigit(c) == \E d \in 1..Len(Digits) : Digits[d] = c

DigitValue(c) == (CHOOSE d \in 1..Len(Digits) : Digits[d] = c) - 1

RECURSIVE ParseDigits(_, _)
ParseDigits(s, acc) ==
    IF s = <<>> THEN acc ELSE ParseDigits(Tail(s), acc * 10 + DigitValue(s[1]))

\* param.UInt64: the path parameter parsed as a base-10 unsigned integer
ParamUInt64(s) ==
    IF s # <<>> /\ \A i \in 1..Len(s) : IsDigit(s[i])
    THEN [value |-> ParseDigits(s, 0), err |-> FALSE]
    ELSE [value |-> 0, err |-> TRUE]

\* what the use-case returns to a handler: the nil error or an error
UseCaseReturns == {NoError} \cup CallErrors

\* the valid URLs among the image URLs of the requests
IsURL(s) == s = "http://x"

\* validate.Validate on a book request: the fields that break their tags
\* (title, published_date and description required; image_url a URL)
ValidateBook(req) ==
    {f \in {"Title"} : req.Title = ""}
        \cup {f \in {"PublishedDate"} : req.PublishedDate = ""}
        \cup {f \in {"ImageURL"} : ~IsURL(req.ImageURL)}
        \cup {f \in {"Description"} : req.Description = ""}

\* the request bodies: one that does not decode, or a decoded request
Undecodable == [decodes |-> FALSE]
Decoded(req) == [decodes |-> TRUE, req |-> req]

\* the author request bodies; the validator's verdict on a decoded author
\* request is an input
AuthorBodies == {Undecodable} \cup {Decoded([FirstName |-> n]) : n \in FirstNames \cup {<<>>}}

BookCreateBodies == {Undecodable} \cup {Decoded(r) : r \in BookCreateRequests}

BookUpdateBodies == {Undecodable} \cup {Decoded(r) : r \in {u \in BookUpdateRequests : u.ID = 0}}

Run(events, writes) == [events |-> events, writes |-> writes]

\* the status the server sends for a run
Sent(run) == IF run.writes = <<>> THEN StatusOK ELSE run.writes[1]

\* author Handler.Create
AuthorHandlerCreate(body, errs, ucErr) ==
    IF ~body.decodes THEN Run(<<"decode">>, <<StatusBadRequest>>)
    ELSE IF errs THEN Run(<<"decode", "validate">>, <<StatusBadRequest>>)
    ELSE IF ucErr # NoError
    THEN IF ErrorsIs(ucErr, ErrNoRows)
         THEN Run(<<"decode", "validate", "usecase">>, <<StatusBadRequest>>)
         ELSE Run(<<"decode", "validate", "usecase">>, <<StatusInternalServerError>>)
    ELSE Run(<<"decode", "validate", "usecase">>, <<StatusCreated>>)

\* author Handler.List
AuthorHandlerList(ucErr) ==
    IF ucErr # NoError THEN Run(<<"usecase">>, <<StatusInternalServerError>>)
    ELSE Run(<<"usecase">>, <<StatusOK>>)

\* mutant: only the parse error is checked, as the book handlers do
AuthorHandlerGetErrOnly(id, ucErr) ==
    LET authorID == ParamUInt64(id)
    IN IF authorID.err THEN Run(<<"param">>, <<StatusBadRequest>>)
       ELSE IF ucErr # NoError
       THEN Run(<<"param", "usecase">>, <<StatusInternalServerError>>)
       ELSE Run(<<"param", "usecase">>, <<StatusOK>>)

\* author Handler.Get
AuthorHandlerGet(id, ucErr) ==
    LET authorID == ParamUInt64(id)
    IN IF authorID.value = 0 \/ authorID.err THEN Run(<<"param">>, <<StatusBadRequest>>)
       ELSE IF ucErr # NoError
       THEN Run(<<"param", "usecase">>, <<StatusInternalServerError>>)
       ELSE Run(<<"param", "usecase">>, <<StatusOK>>)

\* author Handler.Update
AuthorHandlerUpdate(id, body, ucErr) ==
    LET parsed == ParamUInt64(id)
    IN IF parsed.value = 0 \/ parsed.err THEN Run(<<"param">>, <<StatusBadRequest>>)
       ELSE IF ~body.decodes THEN Run(<<"param", "decode">>, <<StatusBadRequest>>)
       ELSE IF ucErr # NoError
       THEN Run(<<"param", "decode", "usecase">>, <<StatusInternalServerError>>)
       ELSE Run(<<"param", "decode", "usecase">>, <<StatusOK>>)

\* mutant: the return after the 400 is missing, the 500 is written too
AuthorHandlerDeleteFallsThrough(id, ucErr) ==
    LET parsed == ParamUInt64(id)
    IN IF parsed.value = 0 \/ parsed.err THEN Run(<<"param">>, <<StatusBadRequest>>)
       ELSE IF ucErr # NoError
       THEN IF ErrorsIs(ucErr, ErrNoRecord)
            THEN Run(<<"param", "usecase">>, <<StatusBadRequest, StatusInternalServerError>>)
            ELSE Run(<<"param", "usecase">>, <<StatusInternalServerError>>)
       ELSE Run(<<"param", "usecase">>, <<>>)

\* author Handler.Delete
AuthorHandlerDelete(id, ucErr) ==
    LET parsed == ParamUInt64(id)
    IN IF parsed.value = 0 \/ parsed.err THEN Run(<<"param">>, <<StatusBadRequest>>)
       ELSE IF ucErr # NoError
       THEN IF ErrorsIs(ucErr, ErrNoRecord)
            THEN Run(<<"param", "usecase">>, <<StatusBadRequest>>)
            ELSE Run(<<"param", "usecase">>, <<StatusInternalServerError>>)
       ELSE Run(<<"param", "usecase">>, <<>>)

\* book Handler.Create
BookHandlerCreate(body, ucErr) ==
    IF ~body.decodes THEN Run(<<"decode">>, <<StatusBadRequest>>)
    ELSE IF ValidateBook(body.req) # {}
    THEN Run(<<"decode", "validate">>, <<StatusBadRequest>>)
    ELSE IF ucErr # NoError
    THEN IF ucErr = <<ErrNoRows>>
         THEN Run(<<"decode", "validate", "usecase">>, <<StatusBadRequest>>)
         ELSE Run(<<"decode", "validate", "usecase">>, <<StatusInternalServerError>>)
    ELSE Run(<<"decode", "validate", "usecase">>, <<StatusCreated>>)

\* book Handler.Get
BookHandlerGet(id, ucErr) ==
    LET bookID == ParamUInt64(id)
    IN IF bookID.err THEN Run(<<"param">>, <<StatusBadRequest>>)
       ELSE IF ucErr # NoError
       THEN IF ErrorsIs(ucErr, ErrNoRows)
            THEN Run(<<"param", "usecase">>, <<StatusBadRequest>>)
            ELSE Run(<<"param", "usecase">>, <<StatusInternalServerError>>)
       ELSE Run(<<"param", "usecase">>, <<StatusOK>>)

\* book Handler.List; formErr: book.Resources fails on the records
BookHandlerList(ucErr, formErr) ==
    IF ucErr # NoError THEN Run(<<"usecase">>, <<StatusInternalServerError>>)
    ELSE IF formErr THEN Run(<<"usecase">>, <<StatusInternalServerError>>)
    ELSE Run(<<"usecase">>, <<StatusOK>>)

\* book Handler.Update
BookHandlerUpdate(id, body, ucErr) ==
    LET bookID == ParamUInt64(id)
    IN IF bookID.err THEN Run(<<"param">>, <<StatusBadRequest>>)
       ELSE IF ~body.decodes THEN Run(<<"param", "decode">>, <<StatusBadRequest>>)
       ELSE IF ValidateBook([body.req EXCEPT !.ID = bookID.value]) # {}
       THEN Run(<<"param", "decode", "validate">>, <<StatusBadRequest>>)
       ELSE IF ucErr # NoError
       THEN Run(<<"param", "decode", "validate", "usecase">>, <<StatusInternalServerError>>)
       ELSE Run(<<"param", "decode", "validate", "usecase">>, <<StatusOK>>)

\* book Handler.Delete
BookHandlerDelete(id, ucErr) ==
    LET bookID == ParamUInt64(id)
    IN IF bookID.err THEN Run(<<"param">>, <<StatusBadRequest>>)
       ELSE IF ucErr # NoError
       THEN Run(<<"param", "usecase">>, <<StatusInternalServerError>>)
       ELSE Run(<<"param", "usecase">>, <<StatusOK>>)

\* the request served: the handler, its inputs, its run and the status sent
Served(handler, id, body, errs, ucErr, run) ==
    [handler |-> handler, id |-> id, body |-> body, errs |-> errs, ucErr |-> ucErr,
     events |-> run.events, writes |-> run.writes, status |-> Sent(run)]

AuthorCreateRequest ==
    /\ \E body \in AuthorBodies, errs \in BOOLEAN, ucErr \in UseCaseReturns :
         http' = Served("author.Create", <<>>, body, errs, ucErr,
                        AuthorHandlerCreate(body, errs, ucErr))
    /\ UNCHANGED <<storeVars, uc>>

AuthorListRequest ==
    /\ \E ucErr \in UseCaseReturns :
         http' = Served("author.List", <<>>, Undecodable, FALSE, ucErr, AuthorHandlerList(ucErr))
    /\ UNCHANGED <<storeVars, uc>>

AuthorGetRequest ==
    /\ \E id \in PathParams, ucErr \in UseCaseReturns :
         http' = Served("author.Get", id, Undecodable, FALSE, ucErr, AuthorHandlerGet(id, ucErr))
    /\ UNCHANGED <<storeVars, uc>>

AuthorUpdateRequest ==
    /\ \E id \in PathParams, body \in AuthorBodies, errs \in BOOLEAN, ucErr \in UseCaseReturns :
         http' = Served("author.Update", id, body, errs, ucErr,
                        AuthorHandlerUpdate(id, body, ucErr))
    /\ UNCHANGED <<storeVars, uc>>

AuthorDeleteRequest ==
    /\ \E id \in PathParams, ucErr \in UseCaseReturns :
         http' = Served("author.Delete", id, Undecodable, FALSE, ucErr,
                        AuthorHandlerDelete(id, ucErr))
    /\ UNCHANGED <<storeVars, uc>>

BookCreateRequest ==
    /\ \E body \in BookCreateBodies, ucErr \in UseCaseReturns :
         http' = Served("book.Create", <<>>, body,
                        body.decodes /\ ValidateBook(body.req) # {}, ucErr,
                        BookHandlerCreate(body, ucErr))
    /\ UNCHANGED <<storeVars, uc>>

BookGetRequest ==
    /\ \E id \in PathParams, ucErr \in UseCaseReturns :
         http' = Served("book.Get", id, Undecodable, FALSE, ucErr, BookHandlerGet(id, ucErr))
    /\ UNCHANGED <<storeVars, uc>>

BookListRequest ==
    /\ \E ucErr \in UseCaseReturns, formErr \in BOOLEAN :
         http' = Served("book.List", <<>>, Undecodable, formErr, ucErr,
                        BookHandlerList(ucErr, formErr))
    /\ UNCHANGED <<storeVars, uc>>

BookUpdateRequest ==
    /\ \E id \in PathParams, body \in BookUpdateBodies, ucErr \in UseCaseReturns :
         http' = Served("book.Update", id, body,
                        body.decodes /\ ValidateBook(body.req) # {}, ucErr,
                        BookHandlerUpdate(id, body, ucErr))
    /\ UNCHANGED <<storeVars, uc>>

BookDeleteRequest ==
    /\ \E id \in PathParams, ucErr \in UseCaseReturns :
         http' = Served("book.Delete", id, Undecodable, FALSE, ucErr,
                        BookHandlerDelete(id, ucErr))
    /\ UNCHANGED <<storeVars, uc>>

----------------------------------------------------------------------------
NoUseCase == [op |-> "none"]
NoRequest == [handler |-> "none"]

Init ==
    /\ authors = <<>>
    /\ books = <<>>
    /\ bookAuthors = {}
    /\ now = 0
    /\ last = NoCall
    /\ prev = NoCall
    /\ ormCalls = <<>>
    /\ softDeleted = <<>>
    /\ listing = NoListing
    /\ uc = NoUseCase
    /\ http = NoRequest

Next == Create \/ List \/ Read \/ Update \/ Delete

Spec == Init /\ [][Next]_vars

NextUseCase ==
    \/ BookUseCaseCreate
    \/ BookUseCaseList
    \/ BookUseCaseRead
    \/ BookUseCaseUpdate
    \/ BookUseCaseDelete
    \/ BookUseCaseSearch

SpecUseCase == Init /\ [][NextUseCase]_vars

NextHandler ==
    \/ AuthorCreateRequest
    \/ AuthorListRequest
    \/ AuthorGetRequest
    \/ AuthorUpdateRequest
    \/ AuthorDeleteRequest
    \/ BookCreateRequest
    \/ BookGetRequest
    \/ BookListRequest
    \/ BookUpdateRequest
    \/ BookDeleteRequest

SpecHandler == Init /\ [][NextHandler]_vars

\* the author repository under concurrent requests: a List runs as its two
\* queries, and Create and Delete of other requests commit in between
NextList == Create \/ Delete \/ ListCountStep \/ ListAllStep

SpecList == Init /\ [][NextList]_vars

----------------------------------------------------------------------------
(* Properties of the author repository *)

BookSet(bks) == {<<bks[i].ID, bks[i].Title>> : i \in 1..Len(bks)}

\* C2: a Read of the id a successful Create returned, made right after that
\* Create, succeeds (unless the driver fails) and returns the same id, the
\* same first, middle and last name, and the same set of books (ids and
\* titles) as the Create.
CreateReadRoundTrip ==
    (/\ last.op = "Read"
     /\ prev.op = "Create"
     /\ last.in = prev.res[1].ID
     /\ ~ErrorsIs(last.err, ErrDriver))
    => /\ last.err = NoError
       /\ Len(last.res) = 1
       /\ last.res[1].ID = prev.res[1].ID
       /\ last.res[1].FirstName = prev.res[1].FirstName
       /\ last.res[1].MiddleName = prev.res[1].MiddleName
       /\ last.res[1].LastName = prev.res[1].LastName
       /\ last.res[1].FirstName = prev.in[1].FirstName
       /\ last.res[1].MiddleName = prev.in[1].MiddleName
       /\ last.res[1].LastName = prev.in[1].LastName
       /\ BookSet(last.res[1].Books) = BookSet(prev.res[1].Books)
       /\ Cardinality(BookSet(last.res[1].Books)) = Len(prev.in[1].Books)

CreateReadRoundTripWitness ==
    /\ last.op = "Read"
    /\ prev.op = "Create"
    /\ last.in = prev.res[1].ID
    /\ last.err = NoError
    /\ last.in = 2
    /\ Cardinality(BookSet(last.res[1].Books)) = 2

\* C3: once Delete(id) has succeeded, the author row exists with deleted_at
\* set, its link rows are those it had when it was deleted, every Read(id)
\* returns an error and no List result contains the id.
SoftDelete ==
    \A id \in DOMAIN softDeleted :
        /\ id \in AuthorIDs
        /\ authors[id].deleted_at # <<>>
        /\ {l \in bookAuthors : l[2] = id} = softDeleted[id]
        /\ (last.op = "Read" /\ last.in = id => last.err # NoError /\ last.res = <<>>)
        /\ (last.op = "List" => \A i \in 1..Len(last.res) : last.res[i].ID # id)

SoftDeleteWitness ==
    \E id \in DOMAIN softDeleted :
        /\ softDeleted[id] # {}
        /\ last.op = "Read"
        /\ last.in = id
        /\ ErrorsIs(last.err, ErrNotFound)

\* C7: every link row refers to a book row and an author row of the store.
ReferentialIntegrity ==
    \A l \in bookAuthors : l[1] \in 1..Len(books) /\ l[2] \in AuthorIDs

ReferentialIntegrityWitness ==
    /\ bookAuthors # {}
    /\ last.op = "Create"
    /\ last.in # <<>>
    /\ Len(last.in[1].Books) > 0
    /\ ormCalls = <<"Book.CreateBulk", "Author.Create">>
    /\ last.err # NoError

\* what a step that is a Create call does to the store, by the ORM calls it
\* issued
CreateStep ==
    LET n == Len(last'.in[1].Books)
        err == last'.err # NoError /\ last'.res = <<>>
    IN last'.op = "Create" =>
         IF last'.in = <<>>
         THEN err /\ ormCalls' = <<>> /\ UNCHANGED <<authors, books, bookAuthors>>
         ELSE CASE ormCalls' = <<"Book.CreateBulk">> ->
                     err /\ UNCHANGED <<authors, books, bookAuthors>>
                [] ormCalls' = <<"Book.CreateBulk", "Author.Create">> ->
                     /\ err
                     /\ Len(books') = Len(books) + n
                     /\ SubSeq(books', 1, Len(books)) = books
                     /\ UNCHANGED <<authors, bookAuthors>>
                [] ormCalls' = <<"Book.CreateBulk", "Author.Create", "Author.Get">> ->
                     /\ Len(books') = Len(books) + n
                     /\ Len(authors') = Len(authors) + 1
                     /\ Cardinality(bookAuthors') = Cardinality(bookAuthors) + n
                     /\ (last'.err # NoError => last'.res = <<>>)
                     /\ (last'.err = NoError => Len(last'.res) = 1)
                [] OTHER -> FALSE

\* C8: Create issues the bulk book create, the author create and the author
\* get in this order, each at most once; the first failing call ends it with
\* an error and a nil record, the later calls are not issued and what the
\* earlier calls wrote stays; a nil request fails before any ORM call.
CreateIsFixedSequence == [][CreateStep]_vars

CreateIsFixedSequenceWitness ==
    /\ last.op = "Create"
    /\ last.in # <<>>
    /\ Len(last.in[1].Books) = 2
    /\ ormCalls = <<"Book.CreateBulk", "Author.Create">>
    /\ last.err # NoError
    /\ Len(books) = 2
    /\ authors = <<>>

\* s contains sub, letter case ignored
HasSubstringFold(s, sub) ==
    \E i \in 1..(Len(s) + 1) :
        /\ i + Len(sub) - 1 <= Len(s)
        /\ \A k \in 1..Len(sub) : FoldChar(s[i + k - 1]) = FoldChar(sub[k])

Live == {id \in AuthorIDs : authors[id].deleted_at = <<>>}

Matches(f, id) ==
    /\ (f.FirstName # <<>> => HasSubstringFold(authors[id].first_name, f.FirstName))
    /\ (f.MiddleName # <<>> => HasSubstringFold(authors[id].middle_name, f.MiddleName))
    /\ (f.LastName # <<>> => HasSubstringFold(authors[id].last_name, f.LastName))

\* C9: a successful List returns only authors with deleted_at nil that match
\* every non-empty name filter, each once, as many as remain of them after
\* Offset and at most Limit; total is the number of authors with deleted_at
\* nil, whatever the filters, Limit and Offset.
ListResult ==
    (last.op = "List" /\ last.err = NoError) =>
        LET f == last.in
            res == last.res
            matching == {id \in Live : Matches(f, id)}
            rest == IF Cardinality(matching) > f.Offset
                    THEN Cardinality(matching) - f.Offset ELSE 0
        IN /\ \A i \in 1..Len(res) :
                /\ res[i].ID \in matching
                /\ res[i].DeletedAt = <<>>
                /\ res[i].FirstName = authors[res[i].ID].first_name
                /\ res[i].MiddleName = authors[res[i].ID].middle_name
                /\ res[i].LastName = authors[res[i].ID].last_name
           /\ \A i, j \in 1..Len(res) : i # j => res[i].ID # res[j].ID
           /\ Len(res) <= f.Limit
           /\ Len(res) = Min2(f.Limit, rest)
           /\ last.total = Cardinality(Live)

ListResultWitness ==
    /\ last.op = "List"
    /\ last.err = NoError
    /\ last.in.FirstName # <<>>
    /\ last.in.Offset = 0
    /\ Len(last.res) = 1
    /\ last.total = 1
    /\ Len(authors) = 2
    /\ \E id \in AuthorIDs : authors[id].deleted_at # <<>>

----------------------------------------------------------------------------
(* Properties of the book use-case *)

\* C1: Create and Update first call the repository write; when it succeeds
\* they call the repository Read once, for the id Create returned or
\* request.ID, and return what that Read returned; when it fails they call
\* nothing more and return a nil record and the write's error.
ReadAfterWrite ==
    uc.op \in {"Create", "Update"} =>
        /\ Len(uc.calls) >= 1
        /\ uc.calls[1].fn = uc.op
        /\ uc.calls[1].arg = uc.in
        /\ IF uc.calls[1].err = NoError
           THEN /\ Len(uc.calls) = 2
                /\ uc.calls[2].fn = "Read"
                /\ uc.calls[2].arg = (IF uc.op = "Create" THEN uc.calls[1].ret ELSE uc.in.ID)
                /\ uc.res = uc.calls[2].ret
                /\ uc.err = uc.calls[2].err
           ELSE /\ Len(uc.calls) = 1
                /\ uc.res = <<>>
                /\ uc.err = uc.calls[1].err

ReadAfterWriteWitness ==
    /\ uc.op = "Create"
    /\ Len(uc.calls) = 2
    /\ uc.calls[1].ret = 2
    /\ uc.calls[2].arg = 2
    /\ uc.res # <<>>
    /\ uc.err = NoError

----------------------------------------------------------------------------
(* Properties of the handlers *)

Called(step) == \E i \in 1..Len(http.events) : http.events[i] = step

Before(a, b) ==
    \E i, j \in 1..Len(http.events) : i < j /\ http.events[i] = a /\ http.events[j] = b

\* C4: the handlers that decode a request body (author Create and Update,
\* book Create and Update) validate the decoded request before they call the
\* use-case, and respond 400 without calling it when the validator reports
\* errors.
ValidateBeforeUseCase ==
    http.handler \in {"author.Create", "author.Update", "book.Create", "book.Update"} =>
        /\ (Called("usecase") => Before("decode", "validate") /\ Before("validate", "usecase"))
        /\ (Called("decode") /\ http.body.decodes /\ http.errs =>
                ~Called("usecase") /\ http.status = StatusBadRequest)

\* C5: book Create responds 201 only when decoding, validation and the
\* use-case succeed; 400 when the body does not decode, validation reports
\* errors or the use-case error is sql.ErrNoRows, directly or wrapped; 500
\* for every other use-case error; it calls the use-case at most once and
\* writes one response.
BookCreateStatus ==
    http.handler = "book.Create" =>
        /\ Len(http.writes) = 1
        /\ Cardinality({i \in 1..Len(http.events) : http.events[i] = "usecase"}) <= 1
        /\ http.status =
             (IF ~http.body.decodes \/ http.errs THEN StatusBadRequest
              ELSE IF http.ucErr = NoError THEN StatusCreated
              ELSE IF ErrorsIs(http.ucErr, ErrNoRows) THEN StatusBadRequest
              ELSE StatusInternalServerError)

\* C6 as stated: author Delete sends 200 when the use-case succeeds, 400 when
\* its error is message.ErrNoRecord and 500 for every other error, and on
\* each of these paths one response is written.
AuthorDeleteWritesOnce ==
    (http.handler = "author.Delete" /\ Called("usecase")) =>
        /\ Len(http.writes) = 1
        /\ http.status =
             (IF http.ucErr = NoError THEN StatusOK
              ELSE IF ErrorsIs(http.ucErr, ErrNoRecord) THEN StatusBadRequest
              ELSE StatusInternalServerError)

\* C6 as amended: author Delete sends 200 when the use-case succeeds, 400 when
\* its error is message.ErrNoRecord and 500 for every other error; on the two
\* error paths the handler writes one response, on the success path it writes
\* none and the 200 is the status the server sends for it.
AuthorDeleteStatus ==
    (http.handler = "author.Delete" /\ Called("usecase")) =>
        /\ http.writes =
             (IF http.ucErr = NoError THEN <<>>
              ELSE IF ErrorsIs(http.ucErr, ErrNoRecord) THEN <<StatusBadRequest>>
              ELSE <<StatusInternalServerError>>)
        /\ http.status =
             (IF http.ucErr = NoError THEN StatusOK
              ELSE IF ErrorsIs(http.ucErr, ErrNoRecord) THEN StatusBadRequest
              ELSE StatusInternalServerError)

AuthorDeleteStatusWitness ==
    /\ http.handler = "author.Delete"
    /\ Called("usecase")
    /\ http.ucErr = NoError
    /\ http.writes = <<>>
    /\ http.status = StatusOK

\* the path parameter is no unsigned integer, or is 0
BadID(s) ==
    \/ s = <<>>
    \/ \E i \in 1..Len(s) : s[i] \notin {"0", "1", "2", "3", "4", "5", "6", "7", "8", "9"}
    \/ \A i \in 1..Len(s) : s[i] = "0"

\* C10: author Get, Update and Delete respond 400 and do not call the
\* use-case when the id path parameter is no unsigned integer or is 0; Update
\* does not decode the body either.
AuthorIdRequired ==
    (http.handler \in {"author.Get", "author.Update", "author.Delete"} /\ BadID(http.id)) =>
        /\ http.events = <<"param">>
        /\ http.writes = <<StatusBadRequest>>
        /\ http.status = StatusBadRequest

AuthorIdRequiredWitness ==
    /\ http.handler = "author.Update"
    /\ http.id = <<"0">>
    /\ http.body.decodes
    /\ http.ucErr = NoError
    /\ http.status = StatusBadRequest

----------------------------------------------------------------------------
(* Properties of soft-deleted rows under later writes *)

\* C12: once an author row has deleted_at set, no later repository Update or
\* Delete changes it: first name, middle name, last name and deleted_at stay
\* as they were when it was deleted.
SoftDeletedRowFrozen ==
    [][\A id \in AuthorIDs :
           authors[id].deleted_at # <<>> => authors'[id] = authors[id]]_vars

----------------------------------------------------------------------------
(* Properties of List under concurrent writes *)

\* C11: in every author List response, also with Create and Delete requests
\* running concurrently, Meta.Size (the number of authors returned) is at most
\* Meta.Total (the count of non-deleted authors in the same response).
ListSizeAtMostTotal ==
    (last.op = "List" /\ last.err = NoError) =>
        LET meta == ListMeta(last.res, last.total) IN meta.Size <= meta.Total

====
